---- MODULE Spec2Model ----
(***************************************************************************)
(* Doctor auto-allocation, report pipeline, assignment ledger and          *)
(* recommendation review of the RemedyLab backend, as a state machine      *)
(* over the persisted tables.                                              *)
(***************************************************************************)
EXTENDS Integers, Sequences, FiniteSets, TLC

\* ------------------------------------------------------------------ bounds
\* The latest last_assignment_date a doctor carries when the reports are uploaded.
MaxStamp == 2
\* The clock stops advancing here.
MaxClock == 4
\* The ledger operations stop adding rows beyond this many.
MaxRows == 6
\* The longest patient_ids list of a bulk assignment.
MaxBulk == 2

\* ------------------------------------------------------------ value spaces
\* Python None / SQL NULL in a text column.
NULL == "NULL"
\* A NULL last_assignment_date / reviewed_date: SQLite sorts NULL before
\* every value under ORDER BY ... ASC, as 0 sorts before every clock value.
NoDate == 0

Doctors == {"d1", "d2", "d3"}
Patients == {"p1", "p2"}
Reports == {"r1"}
\* A report id with no row in health_reports.
MissingReport == "r0"
ReportIds == Reports \cup {MissingReport}

\* The server processes that can each be inside auto_assign_doctor.
Workers == {"w1", "w2"}
\* The local variables of a worker that is not inside auto_assign_doctor:
\* where it stands, report_id, the loaded report object, assigned_doctor
\* and the datetime.now() it read for the stamp.
NoReport == [patient_id |-> NULL, report_type |-> NULL, file_metrics |-> NULL,
             extracted_data_json |-> NULL, assigned_doctor_id |-> NULL,
             processing_status |-> NULL]
IdleRun == [pc |-> "idle", rid |-> NULL, report |-> NoReport, sel |-> NULL,
            now |-> NoDate, ok |-> FALSE]

VARIABLES
    reports,          \* health_reports rows, by report_id
    doctors,          \* doctors rows, by doctor_id
    mappings,         \* patient_doctor_mapping rows (a set of records)
    recommendations,  \* recommendations rows (a set of records)
    clock,            \* datetime.now()
    ret,              \* what the last operation returned to its caller
    runs              \* the calls of auto_assign_doctor in flight, by worker

vars == <<reports, doctors, mappings, recommendations, clock, ret, runs>>

\* ------------------------------------------------- patient_doctor_mapping
\* uuid.uuid4() for the mapping object of the pair (p, d): an id no row
\* carries (the pair and the first free serial number stand for the uuid).
FreshMappingId(rows, p, d) ==
    <<p, d, CHOOSE k \in 1..(Cardinality(rows) + 1) :
                /\ \A m \in rows : m.mapping_id # <<p, d, k>>
                /\ \A j \in 1..(k - 1) : \E m \in rows : m.mapping_id = <<p, d, j>> >>

\* INSERT INTO patient_doctor_mapping without the table's UNIQUE constraint.
InsertMappingNoUnique(rows, row) ==
    [ok |-> TRUE, rows |-> rows \cup {row}]

\* INSERT INTO patient_doctor_mapping through DBManager.execute_query: the
\* UNIQUE (patient_id, doctor_id) constraint rejects a second row for a pair,
\* the statement is rolled back and execute_query returns False.
InsertMapping(rows, row) ==
    IF \E m \in rows : m.patient_id = row.patient_id /\ m.doctor_id = row.doctor_id
    THEN [ok |-> FALSE, rows |-> rows]
    ELSE [ok |-> TRUE, rows |-> rows \cup {row}]

\* UPDATE patient_doctor_mapping SET patient_id, doctor_id, is_active
\* WHERE mapping_id = ?: the same UNIQUE constraint applies to the new pair.
UpdateMapping(rows, row) ==
    IF \E m \in rows : /\ m.mapping_id # row.mapping_id
                       /\ m.patient_id = row.patient_id
                       /\ m.doctor_id = row.doctor_id
    THEN [ok |-> FALSE, rows |-> rows]
    ELSE [ok |-> TRUE,
          rows |-> {m \in rows : m.mapping_id # row.mapping_id} \cup {row}]

\* UPDATE ... SET is_active = 0 WHERE patient_id = ? AND is_active = 1: every
\* active row of the patient, whoever the doctor.
DeactivatePatient(rows, p, d) ==
    {IF m.patient_id = p /\ m.is_active = 1
     THEN [m EXCEPT !.is_active = 0] ELSE m : m \in rows}

\* UPDATE ... SET is_active = 0 WHERE patient_id = ? AND doctor_id = ? AND is_active = 1
DeactivatePair(rows, p, d) ==
    {IF m.patient_id = p /\ m.doctor_id = d /\ m.is_active = 1
     THEN [m EXCEPT !.is_active = 0] ELSE m : m \in rows}

\* PatientDoctorMapping.save on the object obj.
MappingSave(rows, obj) ==
    LET rows1 == IF obj.is_active = 1
                 THEN DeactivatePair(rows, obj.patient_id, obj.doctor_id)
                 ELSE rows
    IN  IF \E m \in rows1 : m.mapping_id = obj.mapping_id
        THEN UpdateMapping(rows1, obj)
        ELSE InsertMapping(rows1, obj)

\* PatientDoctorMapping.find_active_mapping / get_by_doctor_and_patient_id
HasActiveMapping(rows, p, d) ==
    \E m \in rows : m.patient_id = p /\ m.doctor_id = d /\ m.is_active = 1

\* PatientDoctorMapping.create(patient_id, doctor_id, is_active)
MappingCreate(rows, p, d, active) ==
    IF HasActiveMapping(rows, p, d)
    THEN [ok |-> FALSE, rows |-> rows]
    ELSE MappingSave(rows, [mapping_id |-> FreshMappingId(rows, p, d), patient_id |-> p,
                            doctor_id |-> d, is_active |-> IF active THEN 1 ELSE 0])

\* PatientDoctorMapping.deactivate_mapping(doctor_id, patient_id)
MappingDeactivate(rows, d, p) == DeactivatePair(rows, p, d)

\* A reactivation that only sets is_active = 1 on the rows of the pair.
MappingReactivatePairOnly(rows, d, p) ==
    {IF m.doctor_id = d /\ m.patient_id = p
     THEN [m EXCEPT !.is_active = 1] ELSE m : m \in rows}

\* PatientDoctorMapping.reactivate_mapping(doctor_id, patient_id)
MappingReactivate(rows, d, p) ==
    LET rows1 == {IF m.patient_id = p /\ m.is_active = 1
                  THEN [m EXCEPT !.is_active = 0] ELSE m : m \in rows}
    IN  {IF m.doctor_id = d /\ m.patient_id = p
         THEN [m EXCEPT !.is_active = 1] ELSE m : m \in rows1}

\* PatientDoctorMapping.bulk_assign_patients(doctor_id, patient_ids): the
\* loop body for each patient id in turn; acc carries the rows and the
\* failed_assignments list.
RECURSIVE BulkAssign(_, _, _)
BulkAssign(acc, d, ps) ==
    IF ps = <<>> THEN acc
    ELSE LET p == Head(ps)
         IN  IF HasActiveMapping(acc.rows, p, d)
             THEN BulkAssign(acc, d, Tail(ps))
             ELSE LET s == MappingSave(acc.rows,
                               [mapping_id |-> FreshMappingId(acc.rows, p, d), patient_id |-> p,
                                doctor_id |-> d, is_active |-> 1])
                  IN  BulkAssign([rows |-> s.rows,
                                  failed |-> IF s.ok THEN acc.failed
                                             ELSE Append(acc.failed, p)],
                                 d, Tail(ps))

\* -------------------------------------------------------------- doctors
\* Doctor.get_available_doctors_by_specialization: the rows of the WHERE clause.
AvailableSpecialists(docs, spec) ==
    {d \in Doctors : docs[d].is_available = 1 /\ docs[d].specialization = spec}

\* SELECT ... FROM doctors without the WHERE d.is_available = 1.
AllDoctors(docs) == Doctors

\* Doctor.get_all_available_doctors: the rows of the WHERE clause.
AllAvailable(docs) == {d \in Doctors : docs[d].is_available = 1}

\* ORDER BY last_assignment_date DESC: the latest stamp first.
FirstByDateDesc(docs, S) ==
    {d \in S : \A e \in S : docs[d].last_assignment_date >= docs[e].last_assignment_date}

\* ORDER BY d.last_assignment_date ASC, then available_doctors[0]: the rows
\* that can come first (NULL sorts first; rows with equal dates come in an
\* order SQLite does not fix).
FirstByDate(docs, S) ==
    {d \in S : \A e \in S : docs[d].last_assignment_date <= docs[e].last_assignment_date}

\* Doctor.update_last_assignment_date
StampDoctor(docs, d, now) == [docs EXCEPT ![d].last_assignment_date = now]

\* ------------------------------------------------ specialization resolver
\* report_specialist_mapping as seeded by populate_default_specialist_mappings
\* (the report types the model uses), NULL when no row matches.
SpecialistMapping(t) ==
    CASE t = "Cardiology Report" -> "Cardiologist"
      [] t = "Lipid Profile" -> "General Physician"
      [] t = "Thyroid Function Test" -> "Endocrinologist"
      [] t = "General Checkup" -> "General Physician"
      [] OTHER -> NULL

\* The contents of extracted_data_json the pipeline writes, by what the
\* resolver reads in them: the error object of a failed extraction, or the
\* extracted dict with lipid metrics, thyroid metrics or other metrics.
ExtractedKinds == {"error", "lipid", "thyroid", "other"}

\* Every content of the extracted_data_json column: NULL (or an empty
\* string), a text json.loads rejects, a JSON text that is not an object
\* (a list, a number, a string, null) and the objects above.
StoredPayloads == ExtractedKinds \cup {NULL, "undecodable", "non_object"}

\* get_report_type_from_extracted_data raises: json.loads returns a value
\* without .get, the AttributeError is not a JSONDecodeError and leaves the
\* function.
InferenceRaises(json) == json = "non_object"

\* get_report_type_from_extracted_data, when it returns
InferredReportType(json) ==
    CASE json = NULL -> NULL
      [] json = "undecodable" -> NULL
      [] json = "lipid" -> "Lipid Profile"
      [] json = "thyroid" -> "Thyroid Function Test"
      [] OTHER -> "General Checkup"

\* What step 1 of auto_assign_doctor ends with.
Resolved(specialization) == [raised |-> FALSE, specialization |-> specialization]

\* Step 1 of auto_assign_doctor (lines 60-87) on the loaded report, with
\* whether get_specialization_by_report_type raises for the declared type
\* and for the inferred type: the specialization, or an exception on its
\* way to the except clause of line 168.
ResolveSpecialization(report, direct_raises, inferred_raises) ==
    LET direct == IF report.report_type # NULL /\ ~direct_raises
                  THEN SpecialistMapping(report.report_type) ELSE NULL
    IN  IF direct # NULL THEN Resolved(direct)
        ELSE IF report.extracted_data_json = NULL THEN Resolved("General Physician")
        ELSE IF InferenceRaises(report.extracted_data_json)
        THEN [raised |-> TRUE, specialization |-> NULL]
        ELSE LET t == InferredReportType(report.extracted_data_json)
                 inferred == IF t # NULL /\ ~inferred_raises
                             THEN SpecialistMapping(t) ELSE NULL
             IN  Resolved(IF inferred = NULL THEN "General Physician" ELSE inferred)

\* auto_assign_doctor, step 1, with both lookups working
RequiredSpecialization(report) ==
    ResolveSpecialization(report, FALSE, FALSE).specialization

\* --------------------------------------------------------- auto_allocator
\* One way a call of auto_assign_doctor can end: the tables afterwards, the
\* value returned, whether a collaborator or a persistence call failed on
\* the way, how the allocation went and the doctor selected.
AOut(db, ok, fault, alloc, sel) ==
    [db |-> db, ok |-> ok, fault |-> fault, alloc |-> alloc, sel |-> sel]

\* The status auto_assign_doctor writes with the doctor, misspelt.
AssignedStatusTypo == "assigned"

\* The status auto_assign_doctor writes together with the doctor id.
AssignedStatus == "doctor_assigned"

\* auto_assign_doctor, steps 3 to 5, for the selected doctor d.
Bind(db, rid, d, now, fault) ==
    LET obj == [db.reports[rid] EXCEPT !.assigned_doctor_id = d,
                                       !.processing_status = AssignedStatus]
        saved == [db EXCEPT !.reports[rid] = obj]
        mc == MappingCreate(saved.mappings, obj.patient_id, d, TRUE)
        mapped == [saved EXCEPT !.mappings = mc.rows]
    IN  {\* report.save() returns False or raises
         AOut(db, FALSE, TRUE, "save_failed", d),
         \* all three writes attempted
         AOut([mapped EXCEPT !.doctors = StampDoctor(mapped.doctors, d, now)],
              TRUE, fault, "bound", d),
         \* update_last_assignment_date returns False or raises
         AOut(mapped, TRUE, TRUE, "bound", d),
         \* PatientDoctorMapping.create raises
         AOut([saved EXCEPT !.doctors = StampDoctor(saved.doctors, d, now)],
              TRUE, TRUE, "bound", d),
         AOut(saved, TRUE, TRUE, "bound", d)}

\* auto_assign_doctor, lines 117-122: no doctor is available.
NoDoctor(db, rid, fault) ==
    LET obj == [db.reports[rid] EXCEPT !.processing_status = "pending_manual_assignment"]
    IN  {AOut([db EXCEPT !.reports[rid] = obj], FALSE, fault, "no_doctor", NULL),
         \* report.save() returns False or raises
         AOut(db, FALSE, TRUE, "no_doctor", NULL)}

\* An allocator without the fallback to any available doctor.
FallbackNone(db, rid, now, fault) == NoDoctor(db, rid, fault)

\* auto_assign_doctor, lines 108-125: any available doctor.
Fallback(db, rid, now, fault) ==
    {AOut(db, FALSE, TRUE, "error", NULL)}    \* get_all_available_doctors raises
    \cup IF AllAvailable(db.doctors) = {}
         THEN NoDoctor(db, rid, fault)
         ELSE UNION {Bind(db, rid, d, now, fault) :
                         d \in FirstByDate(db.doctors, AllAvailable(db.doctors))}

\* An allocator without the check for an existing assignment.
AlreadyAssignedNever(report) == FALSE

\* auto_assign_doctor, lines 54-56: the report already has a doctor.
AlreadyAssigned(report) == report.assigned_doctor_id # NULL

\* auto_assign_doctor(report_id)
AutoAssignOutcomes(db, rid, now) ==
    {AOut(db, FALSE, TRUE, "error", NULL)}    \* HealthReport.get_by_report_id raises
    \cup IF rid \notin DOMAIN db.reports
         THEN {AOut(db, FALSE, FALSE, "not_found", NULL)}
         ELSE IF AlreadyAssigned(db.reports[rid])
         THEN {AOut(db, TRUE, FALSE, "already", NULL)}
         ELSE IF ResolveSpecialization(db.reports[rid], FALSE, FALSE).raised
         THEN {}       \* the exception reaches line 168: the outcome above
         ELSE LET spec == RequiredSpecialization(db.reports[rid])
                  specialists == AvailableSpecialists(db.doctors, spec)
              IN  IF specialists # {}
                  THEN UNION {Bind(db, rid, d, now, FALSE) :
                                  d \in FirstByDate(db.doctors, specialists)}
                       \* get_available_doctors_by_specialization raises
                       \cup Fallback(db, rid, now, TRUE)
                  ELSE Fallback(db, rid, now, FALSE)

\* -------------------------------------------------------- recommendations
\* uuid.uuid4() for a new recommendation of report rid: an id no row carries.
FreshRecommendationId(rows, rid) ==
    <<rid, CHOOSE k \in 1..(Cardinality(rows) + 1) :
               /\ \A x \in rows : x.recommendation_id # <<rid, k>>
               /\ \A j \in 1..(k - 1) : \E x \in rows : x.recommendation_id = <<rid, j>> >>

\* Recommendation.create on a table without the UNIQUE report_id.
RecommendationCreateNoUnique(rows, rid, pid, did, treatment, lifestyle, priority, status, now) ==
    [ok |-> TRUE,
     rows |-> rows \cup
         {[recommendation_id |-> FreshRecommendationId(rows, rid),
           report_id |-> rid, patient_id |-> pid,
           ai_generated_treatment |-> treatment,
           ai_generated_lifestyle |-> lifestyle,
           ai_generated_priority |-> priority,
           doctor_id |-> did, doctor_notes |-> NULL, status |-> status,
           reviewed_date |-> NoDate, approved_treatment |-> NULL,
           approved_lifestyle |-> NULL, last_updated_at |-> now]}]

\* Recommendation.create: INSERT INTO recommendations; report_id is UNIQUE,
\* the columns the INSERT does not name stay NULL and last_updated_at takes
\* its DEFAULT CURRENT_TIMESTAMP.
RecommendationCreate(rows, rid, pid, did, treatment, lifestyle, priority, status, now) ==
    IF \E x \in rows : x.report_id = rid
    THEN [ok |-> FALSE, rows |-> rows]
    ELSE [ok |-> TRUE,
          rows |-> rows \cup
              {[recommendation_id |-> FreshRecommendationId(rows, rid),
                report_id |-> rid, patient_id |-> pid,
                ai_generated_treatment |-> treatment,
                ai_generated_lifestyle |-> lifestyle,
                ai_generated_priority |-> priority,
                doctor_id |-> did, doctor_notes |-> NULL, status |-> status,
                reviewed_date |-> NoDate, approved_treatment |-> NULL,
                approved_lifestyle |-> NULL, last_updated_at |-> now]}]

\* Recommendation.find_by_report_id: the rows fetch_one can return.
RecommendationsOf(rows, rid) == {x \in rows : x.report_id = rid}

\* Python truthiness of an optional string: None and "" are falsy.
Truthy(v) == v # NULL /\ v # ""

\* update_status with the stored doctor taking precedence over the caller's.
UpdatedRecommendationKeepDoctor(rec, new_status, doctor_id, doctor_notes, approved_treatment, approved_lifestyle, now) ==
    [rec EXCEPT
        !.status = new_status,
        !.last_updated_at = now,
        !.reviewed_date = now,
        !.doctor_id = IF Truthy(rec.doctor_id) THEN rec.doctor_id ELSE doctor_id,
        !.doctor_notes = IF doctor_notes # NULL THEN doctor_notes ELSE rec.doctor_notes,
        !.approved_treatment = IF approved_treatment # NULL THEN approved_treatment
                               ELSE rec.approved_treatment,
        !.approved_lifestyle = IF approved_lifestyle # NULL THEN approved_lifestyle
                               ELSE rec.approved_lifestyle]

\* Recommendation.update_status: the object after the assignments of lines
\* 195-203, which the UPDATE then writes to the row of the same id.
UpdatedRecommendation(rec, new_status, doctor_id, doctor_notes, approved_treatment, approved_lifestyle, now) ==
    [rec EXCEPT
        !.status = new_status,
        !.last_updated_at = now,
        !.reviewed_date = now,
        !.doctor_id = IF Truthy(doctor_id) THEN doctor_id ELSE rec.doctor_id,
        !.doctor_notes = IF doctor_notes # NULL THEN doctor_notes ELSE rec.doctor_notes,
        !.approved_treatment = IF approved_treatment # NULL THEN approved_treatment
                               ELSE rec.approved_treatment,
        !.approved_lifestyle = IF approved_lifestyle # NULL THEN approved_lifestyle
                               ELSE rec.approved_lifestyle]

\* UPDATE recommendations SET ... WHERE recommendation_id = ?
WriteRecommendation(rows, rec) ==
    {IF x.recommendation_id = rec.recommendation_id THEN rec ELSE x : x \in rows}

\* ------------------------------------------------------------- the pipeline
\* parse_report on the stored file of the report: the raw text with the
\* metrics the file holds, or no usable raw text (a short text, or an error
\* of the extractor, which parse_report turns into an empty raw text).
ExtractOutcomes(report) == {"empty", report.file_metrics}

\* One way the body of process_report_pipeline can end: the tables
\* afterwards and either the dict it returns or an exception on its way out.
POut(db, kind, success, step, error, status, fault, alloc, sel) ==
    [db |-> db, kind |-> kind, success |-> success, step |-> step, error |-> error,
     status |-> status, fault |-> fault, alloc |-> alloc, sel |-> sel]

\* An exception leaves the body of the try block.
Raised(db, alloc, sel) ==
    POut(db, "raise", NULL, NULL, NULL, NULL, TRUE, alloc, sel)

\* The import of the AI engine raises ImportError inside the try block.
RaisedImport(db, alloc, sel) ==
    [Raised(db, alloc, sel) EXCEPT !.error = "ImportError"]

\* return {"success": False, "step": step, "error": msg}
Failure(db, step, fault, alloc, sel) ==
    POut(db, "return", FALSE, step, "error at " \o step, NULL, fault, alloc, sel)

\* return {"success": True, ..., "status": report.processing_status, ...}
Success(db, status, fault, alloc, sel) ==
    POut(db, "return", TRUE, NULL, NULL, status, fault, alloc, sel)

\* An except handler of the AI stage (lines 224-233): set the status on the
\* report object and save it; the pipeline then returns success.
AiHandler(db, rid, obj, status, alloc, sel) ==
    {Success([db EXCEPT !.reports[rid] = [obj EXCEPT !.processing_status = status]],
             status, TRUE, alloc, sel),
     Success(db, status, TRUE, alloc, sel),     \* report.save() returns False
     Raised(db, alloc, sel)}                    \* report.save() raises

\* report.save() of line 222, inside the try of the AI stage.
AiSave(db, rid, obj, fault, alloc, sel) ==
    {Success([db EXCEPT !.reports[rid] = obj], obj.processing_status, fault, alloc, sel),
     Success(db, obj.processing_status, TRUE, alloc, sel)}   \* returns False
    \cup AiHandler(db, rid, obj, "ai_generation_failed", alloc, sel)  \* raises

\* Lines 186-215: the tables after the recommendation of the report was
\* updated or created, with whether the write failed.
RecommendationStep(db, rid, obj, now) ==
    LET found == RecommendationsOf(db.recommendations, rid)
    IN  IF found # {}
        THEN UNION {
               {[db |-> [db EXCEPT !.recommendations =
                            WriteRecommendation(db.recommendations,
                                UpdatedRecommendation(rec, "pending_doctor_review",
                                    obj.assigned_doctor_id, "", "ai_treatment",
                                    "ai_lifestyle", now))],
                 fault |-> FALSE],
                [db |-> db, fault |-> TRUE]} : rec \in found}
        ELSE LET c == RecommendationCreate(db.recommendations, rid, obj.patient_id,
                          obj.assigned_doctor_id, "ai_treatment", "ai_lifestyle",
                          "Medium", "pending_doctor_review", now)
             IN  {[db |-> [db EXCEPT !.recommendations = c.rows], fault |-> FALSE],
                  [db |-> db, fault |-> TRUE]}

\* A pipeline that sends a report without AI data on to the doctor.
NoAiDataStatusReview == "pending_doctor_review"

\* Line 220: the status of a report for which the AI returned no data.
NoAiDataStatus == "pending_ai_analysis"

\* A pipeline that runs the AI stage whatever the status of the report.
AiStageAlways(obj) == TRUE

\* Line 176: the AI stage runs only for a report in doctor_assigned.
AiStageEnabled(obj) == obj.processing_status = "doctor_assigned"

\* Step 3 of the pipeline (lines 173-245) with the report object obj.
AiStage(db, rid, obj, now, fault, alloc, sel) ==
    {RaisedImport(db, alloc, sel)}    \* the import of line 174 raises ImportError
    \cup IF ~AiStageEnabled(obj)
         THEN {Success(db, obj.processing_status, fault, alloc, sel)}
         ELSE \* generate_ai_recommendations returns data
              UNION {AiSave(s.db, rid,
                            [obj EXCEPT !.processing_status = "pending_doctor_review"],
                            fault \/ s.fault, alloc, sel) :
                         s \in RecommendationStep(db, rid, obj, now)}
              \* find_by_report_id, update_status or create raises
              \cup AiHandler(db, rid, obj, "ai_generation_failed", alloc, sel)
              \* generate_ai_recommendations returns no data
              \cup AiSave(db, rid, [obj EXCEPT !.processing_status = NoAiDataStatus],
                          fault, alloc, sel)
              \* generate_ai_recommendations raises
              \cup AiHandler(db, rid, obj, "ai_generation_failed", alloc, sel)
              \* generate_ai_recommendations raises ImportError
              \cup AiHandler(db, rid, obj, "doctor_assigned_no_ai", alloc, sel)

\* Lines 154-171: after auto_assign_doctor returned.
AfterAssign(a, rid, now) ==
    IF ~a.ok
    THEN {Failure(a.db, "doctor_auto_assignment", a.fault, a.alloc, a.sel)}
    ELSE {Raised(a.db, a.alloc, a.sel)}     \* the refresh of line 163 raises
         \cup IF a.db.reports[rid].assigned_doctor_id = NULL
              THEN {Failure(a.db, "doctor_verification", a.fault, a.alloc, a.sel)}
              ELSE AiStage(a.db, rid, a.db.reports[rid], now, a.fault, a.alloc, a.sel)

\* Lines 134-171: extraction outcome x, the save, then the allocation.
AfterExtract(db, rid, x, now) ==
    LET obj == IF x = "empty"
               THEN [db.reports[rid] EXCEPT !.processing_status = "failed_extraction",
                                            !.extracted_data_json = "error"]
               ELSE [db.reports[rid] EXCEPT !.processing_status = "extracted",
                                            !.extracted_data_json = x]
        db1 == [db EXCEPT !.reports[rid] = obj]
    IN  {Raised(db, "none", NULL),                               \* report.save() raises
         Failure(db, "save_extracted_data", TRUE, "none", NULL)} \* returns False
        \cup IF obj.processing_status = "extracted"
             THEN UNION {AfterAssign(a, rid, now) : a \in AutoAssignOutcomes(db1, rid, now)}
             ELSE AiStage(db1, rid, obj, now, FALSE, "none", NULL)

\* The body of the try block of process_report_pipeline.
PipelineBody(db, rid, now) ==
    {Raised(db, "none", NULL)}               \* HealthReport.get_by_report_id raises
    \cup IF rid \notin DOMAIN db.reports
         THEN {Failure(db, "load_report", FALSE, "none", NULL)}
         ELSE UNION {AfterExtract(db, rid, x, now) : x \in ExtractOutcomes(db.reports[rid])}

\* A pipeline without the outer try/except: the exception reaches the caller.
NoOuterExcept(o) == o

\* except Exception of lines 246-254: the exception becomes a result.
OuterExcept(o) ==
    IF o.kind = "raise"
    THEN [o EXCEPT !.kind = "return", !.success = FALSE, !.step = "pipeline_execution",
                   !.error = IF o.error = NULL THEN "Pipeline execution failed"
                             ELSE "Pipeline execution failed: " \o o.error]
    ELSE o

\* DocumentParserService.process_report_pipeline(report_id, db)
ProcessReportPipeline(db, rid, now) ==
    {OuterExcept(o) : o \in PipelineBody(db, rid, now)}

\* ------------------------------------------------------------------ state
\* The four tables as one record, as the operators above take them.
Db == [reports |-> reports, doctors |-> doctors, mappings |-> mappings,
       recommendations |-> recommendations]

\* What a caller sees of an operation: which operation on which id, and, for
\* the pipeline and the allocator, the returned dict with how the run went.
\* pre_doctor is the report's assigned_doctor_id when the call was made,
\* sel_date the selected doctor's last_assignment_date at that time.
Ret(op, id, o, pre_doctor) ==
    [op |-> op, id |-> id, kind |-> o.kind, success |-> o.success, step |-> o.step,
     error |-> o.error, status |-> o.status, fault |-> o.fault, alloc |-> o.alloc,
     sel |-> o.sel, pre_doctor |-> pre_doctor,
     sel_date |-> IF o.sel # NULL THEN doctors[o.sel].last_assignment_date ELSE NoDate]

\* The return of an operation that only succeeds or fails with an error.
Plain(op, id, success, error) ==
    [op |-> op, id |-> id, kind |-> "return", success |-> success, step |-> NULL,
     error |-> error, status |-> NULL, fault |-> FALSE, alloc |-> "none",
     sel |-> NULL, pre_doctor |-> NULL, sel_date |-> NoDate]

\* Declared report types: one seeded in report_specialist_mapping, one not.
ReportTypes == {"Cardiology Report", "Xyz"}

\* The row the upload route inserts for a report of patient p1 declared
\* with type t, whose file holds lipid metrics.
UploadedReport(t) ==
    [patient_id |-> "p1", report_type |-> t, file_metrics |-> "lipid",
     extracted_data_json |-> NULL, assigned_doctor_id |-> NULL,
     processing_status |-> "uploaded"]

\* The doctors: two cardiologists and a general physician.
SpecializationOf(d) == IF d = "d3" THEN "General Physician" ELSE "Cardiologist"

\* The upload route's INSERT INTO health_reports for each report; the doctors
\* table with any availability and any earlier assignment dates; empty ledger
\* and recommendations.  Both doctor lookups filter on is_available = 1 and
\* only a selected doctor is stamped, so the date of an unavailable doctor is
\* never read or written: it is left at NULL.
Init ==
    /\ \E t \in ReportTypes : reports = [r \in Reports |-> UploadedReport(t)]
    /\ doctors \in [Doctors -> [specialization : {"Cardiologist", "General Physician"},
                                is_available : {0, 1},
                                last_assignment_date : NoDate..MaxStamp]]
    /\ \A d \in Doctors : doctors[d].specialization = SpecializationOf(d)
    /\ \A d \in Doctors : doctors[d].is_available = 0
                              => doctors[d].last_assignment_date = NoDate
    /\ mappings = {}
    /\ recommendations = {}
    /\ clock = MaxStamp + 1
    /\ ret = Plain("init", NULL, TRUE, NULL)
    /\ runs = [w \in Workers |-> IdleRun]

\* datetime.now() after an operation that read it at t.
Later(t) == IF t < MaxClock THEN t + 1 ELSE t

PreDoctor(rid) == IF rid \in Reports THEN reports[rid].assigned_doctor_id ELSE NULL

\* DocumentParserService.process_report_pipeline(report_id, db); with faults
\* FALSE, only the runs in which no collaborator and no persistence call fails.
RunPipeline(rid, faults) ==
    \E o \in ProcessReportPipeline(Db, rid, clock) :
        /\ faults \/ ~o.fault
        /\ reports' = o.db.reports
        /\ doctors' = o.db.doctors
        /\ mappings' = o.db.mappings
        /\ recommendations' = o.db.recommendations
        /\ ret' = Ret("pipeline", rid, o, PreDoctor(rid))
        /\ clock' = IF o.alloc = "bound" THEN Later(clock) ELSE clock
        /\ UNCHANGED runs

\* auto_assign_doctor(report_id) called on its own; with faults FALSE, only
\* the runs in which no collaborator and no persistence call fails.
AutoAssignDoctor(rid, faults) ==
    \E a \in AutoAssignOutcomes(Db, rid, clock) :
        /\ faults \/ ~a.fault
        /\ reports' = a.db.reports
        /\ doctors' = a.db.doctors
        /\ mappings' = a.db.mappings
        /\ recommendations' = a.db.recommendations
        /\ ret' = [Plain("auto_assign", rid, a.ok, NULL) EXCEPT
                       !.fault = a.fault, !.alloc = a.alloc, !.sel = a.sel,
                       !.pre_doctor = PreDoctor(rid),
                       !.sel_date = IF a.sel # NULL
                                    THEN doctors[a.sel].last_assignment_date
                                    ELSE NoDate]
        /\ clock' = IF a.alloc = "bound" THEN Later(clock) ELSE clock
        /\ UNCHANGED runs

\* PatientDoctorMapping.create(patient_id, doctor_id, is_active)
CreateMapping(p, d, active) ==
    /\ Cardinality(mappings) <= MaxRows
    /\ LET c == MappingCreate(mappings, p, d, active)
       IN  /\ mappings' = c.rows
           /\ ret' = Plain("mapping_create", <<p, d>>, c.ok, NULL)
    /\ UNCHANGED <<reports, doctors, recommendations, clock, runs>>

\* The mapping objects a caller can hold and save: one loaded from a row
\* (find_active_mapping, get_patient_history, ...), is_active set either way.
MappingObjects ==
    {[m EXCEPT !.is_active = a] : m \in mappings, a \in {0, 1}}

\* PatientDoctorMapping.save() on a loaded object.
SaveMapping(obj) ==
    /\ LET s == MappingSave(mappings, obj)
       IN  /\ mappings' = s.rows
           /\ ret' = Plain("mapping_save", NULL, s.ok, NULL)
    /\ UNCHANGED <<reports, doctors, recommendations, clock, runs>>

\* The patient_ids lists of a bulk assignment: up to MaxBulk patient ids.
PatientLists == UNION {[1..n -> Patients] : n \in 0..MaxBulk}

\* PatientDoctorMapping.bulk_assign_patients(doctor_id, patient_ids)
BulkAssignPatients(d, ps) ==
    /\ Cardinality(mappings) <= MaxRows
    /\ LET b == BulkAssign([rows |-> mappings, failed |-> <<>>], d, ps)
       IN  /\ mappings' = b.rows
           /\ ret' = Plain("bulk_assign", NULL, b.failed = <<>>, NULL)
    /\ UNCHANGED <<reports, doctors, recommendations, clock, runs>>

\* PatientDoctorMapping.deactivate_mapping(doctor_id, patient_id)
DeactivateMapping(d, p) ==
    /\ mappings' = MappingDeactivate(mappings, d, p)
    /\ ret' = Plain("mapping_deactivate", NULL, TRUE, NULL)
    /\ UNCHANGED <<reports, doctors, recommendations, clock, runs>>

\* PatientDoctorMapping.reactivate_mapping(doctor_id, patient_id)
ReactivateMapping(d, p) ==
    /\ mappings' = MappingReactivate(mappings, d, p)
    /\ ret' = Plain("mapping_reactivate", NULL, TRUE, NULL)
    /\ UNCHANGED <<reports, doctors, recommendations, clock, runs>>

\* ------------------------------------------------- recommendation routes
\* A recommendation id with no row in recommendations.
MissingRecommendation == <<MissingReport, 1>>
RecommendationIds ==
    {x.recommendation_id : x \in recommendations} \cup {MissingRecommendation}

\* Recommendation.get_by_recommendation_id
RecommendationById(id) ==
    CHOOSE x \in recommendations : x.recommendation_id = id

\* POST /create: the report must exist, then Recommendation.create with
\* the status of the request or 'AI_generated'.
CreateRecommendation(rid, did, status) ==
    /\ IF rid \notin Reports
       THEN /\ ret' = Plain("create_recommendation", rid, FALSE, "server_error")
            /\ UNCHANGED <<recommendations, clock>>
       ELSE LET c == RecommendationCreate(recommendations, rid, reports[rid].patient_id,
                         did, "ai_treatment", "ai_lifestyle", "Medium",
                         IF Truthy(status) THEN status ELSE "AI_generated", clock)
            IN  /\ recommendations' = c.rows
                /\ ret' = Plain("create_recommendation", rid, c.ok,
                                IF c.ok THEN NULL ELSE "server_error")
                /\ clock' = IF c.ok THEN Later(clock) ELSE clock
    /\ UNCHANGED <<reports, doctors, mappings, runs>>

\* A review route found its recommendation, called update_status through the
\* model method and answers 200.
Reviewed(op, rec, new_status, did, notes, treatment, lifestyle) ==
    /\ recommendations' = WriteRecommendation(recommendations,
            UpdatedRecommendation(rec, new_status, did, notes, treatment, lifestyle, clock))
    /\ ret' = Plain(op, rec.recommendation_id, TRUE, NULL)
    /\ clock' = Later(clock)

\* A review route answers with an HTTP error before it touches the row.
Refused(op, id, error) ==
    /\ ret' = Plain(op, id, FALSE, error)
    /\ UNCHANGED <<recommendations, clock>>

\* PUT /{recommendation_id}/approve with DoctorReviewRequest(doctor_id, doctor_notes)
ApproveRecommendation(id, did, notes) ==
    /\ IF \A x \in recommendations : x.recommendation_id # id
       THEN Refused("approve", id, "not_found")
       ELSE LET rec == RecommendationById(id)
            IN  Reviewed("approve", rec, "approved_by_doctor", did,
                         IF Truthy(notes) THEN notes ELSE "",
                         rec.ai_generated_treatment, rec.ai_generated_lifestyle)
    /\ UNCHANGED <<reports, doctors, mappings, runs>>

\* The check of modify-approve with one replacement text enough.
ModifyRequestEither(treatment, lifestyle) == Truthy(treatment) \/ Truthy(lifestyle)

\* modify_and_approve_recommendation, line 224: both replacement texts.
ModifyRequestValid(treatment, lifestyle) == Truthy(treatment) /\ Truthy(lifestyle)

\* PUT /{recommendation_id}/modify-approve
ModifyAndApproveRecommendation(id, did, notes, treatment, lifestyle) ==
    /\ IF \A x \in recommendations : x.recommendation_id # id
       THEN Refused("modify_approve", id, "not_found")
       ELSE IF ~ModifyRequestValid(treatment, lifestyle)
       THEN Refused("modify_approve", id, "validation")
       ELSE Reviewed("modify_approve", RecommendationById(id),
                     "modified_and_approved_by_doctor", did,
                     IF Truthy(notes) THEN notes ELSE "", treatment, lifestyle)
    /\ UNCHANGED <<reports, doctors, mappings, runs>>

\* reject_recommendation, line 267: doctor notes are required.
RejectRequestValid(notes) == Truthy(notes)

\* PUT /{recommendation_id}/reject
RejectRecommendation(id, did, notes) ==
    /\ IF \A x \in recommendations : x.recommendation_id # id
       THEN Refused("reject", id, "not_found")
       ELSE IF ~RejectRequestValid(notes)
       THEN Refused("reject", id, "validation")
       ELSE Reviewed("reject", RecommendationById(id), "rejected_by_doctor", did,
                     notes, NULL, NULL)
    /\ UNCHANGED <<reports, doctors, mappings, runs>>

\* PUT /{recommendation_id}/status with RecommendationUpdate
UpdateRecommendationStatus(id, status, did, notes, treatment, lifestyle) ==
    /\ IF \A x \in recommendations : x.recommendation_id # id
       THEN Refused("update_status", id, "not_found")
       ELSE Reviewed("update_status", RecommendationById(id), status, did, notes,
                     treatment, lifestyle)
    /\ UNCHANGED <<reports, doctors, mappings, runs>>

\* DELETE /{recommendation_id}: a soft delete through update_status.
DeleteRecommendation(id) ==
    /\ IF \A x \in recommendations : x.recommendation_id # id
       THEN Refused("delete", id, "not_found")
       ELSE Reviewed("delete", RecommendationById(id), "deleted", NULL, NULL, NULL, NULL)
    /\ UNCHANGED <<reports, doctors, mappings, runs>>

\* The request bodies of the review routes.
ReviewDoctors == {"d1", "d2"}
NotesInputs == {NULL, "", "note"}
TreatmentInputs == {NULL, "", "mod_treatment"}
LifestyleInputs == {NULL, "", "mod_lifestyle"}
\* RecommendationUpdate.status is any string; the statuses the code names
\* and one it does not.
StatusInputs == {"AI_generated", "pending_doctor_review", "approved_by_doctor",
                 "modified_and_approved_by_doctor", "rejected_by_doctor",
                 "deleted", "archived"}

ReviewNext ==
    \/ \E rid \in ReportIds, did \in {NULL, "d1"},
          status \in {NULL, "pending_doctor_review"} :
            CreateRecommendation(rid, did, status)
    \/ \E id \in RecommendationIds, did \in ReviewDoctors, notes \in NotesInputs :
            ApproveRecommendation(id, did, notes)
    \/ \E id \in RecommendationIds, did \in ReviewDoctors, notes \in NotesInputs,
          t \in TreatmentInputs, l \in LifestyleInputs :
            ModifyAndApproveRecommendation(id, did, notes, t, l)
    \/ \E id \in RecommendationIds, did \in ReviewDoctors, notes \in NotesInputs :
            RejectRecommendation(id, did, notes)
    \/ \E id \in RecommendationIds, status \in StatusInputs, did \in {NULL, "d1"},
          notes \in {NULL, "note"}, t \in {NULL, "mod_treatment"},
          l \in {NULL, "mod_lifestyle"} :
            UpdateRecommendationStatus(id, status, did, notes, t, l)
    \/ \E id \in RecommendationIds : DeleteRecommendation(id)

PipelineNext ==
    \/ \E rid \in ReportIds : RunPipeline(rid, TRUE)
    \/ \E rid \in ReportIds : AutoAssignDoctor(rid, TRUE)

LedgerNext ==
    \/ \E p \in Patients, d \in Doctors, a \in BOOLEAN : CreateMapping(p, d, a)
    \/ \E obj \in MappingObjects : SaveMapping(obj)
    \/ \E d \in Doctors, ps \in PatientLists : BulkAssignPatients(d, ps)
    \/ \E d \in Doctors, p \in Patients : DeactivateMapping(d, p)
    \/ \E d \in Doctors, p \in Patients : ReactivateMapping(d, p)
    \/ \E rid \in ReportIds : AutoAssignDoctor(rid, FALSE)

\* The pipeline and the allocator on the uploaded report, every collaborator
\* and persistence failure included.
Next == PipelineNext

Spec == Init /\ [][Next]_vars

NominalNext ==
    \/ \E rid \in ReportIds : RunPipeline(rid, FALSE)
    \/ \E rid \in ReportIds : AutoAssignDoctor(rid, FALSE)

\* The pipeline and the allocator when every collaborator and every
\* persistence call works.
SpecNominal == Init /\ [][NominalNext]_vars

\* The ledger starts from the upload of a cardiology report with every
\* doctor available and never assigned.
LedgerInit ==
    /\ Init
    /\ reports["r1"].report_type = "Cardiology Report"
    /\ \A d \in Doctors : doctors[d].is_available = 1
                          /\ doctors[d].last_assignment_date = NoDate

\* The assignment ledger under its own operations and auto-allocation.
SpecLedger == LedgerInit /\ [][LedgerNext]_vars

\* The recommendation routes on the recommendation of the uploaded report.
SpecReview == LedgerInit /\ [][ReviewNext]_vars

CareNext ==
    \/ \E rid \in Reports : RunPipeline(rid, TRUE)
    \/ \E rid \in Reports, did \in {NULL, "d1"}, status \in {NULL, "pending_doctor_review"} :
            CreateRecommendation(rid, did, status)
    \/ \E id \in RecommendationIds, did \in ReviewDoctors :
            ApproveRecommendation(id, did, "note")
    \/ \E id \in RecommendationIds, did \in ReviewDoctors :
            ModifyAndApproveRecommendation(id, did, "note", "mod_treatment", "mod_lifestyle")
    \/ \E id \in RecommendationIds, did \in ReviewDoctors :
            RejectRecommendation(id, did, "note")
    \/ \E id \in RecommendationIds : DeleteRecommendation(id)

\* The pipeline on the uploaded report next to the creation, the review and
\* the soft delete of its recommendation.
SpecCare == LedgerInit /\ [][CareNext]_vars

\* ------------------------- auto_assign_doctor, statement by statement
\* Several server processes share the SQLite file; DBManager.execute_query
\* commits each statement on its own and nothing holds a lock from one
\* statement of auto_assign_doctor to the next.  Each worker runs one call,
\* every collaborator and persistence call working.
RaceReports == {"r1", "r2"}

\* The row of a cardiology report of patient p once the extraction stage of
\* the pipeline has saved it, before the pipeline calls the allocator.
ExtractedReport(p) ==
    [UploadedReport("Cardiology Report") EXCEPT !.patient_id = p,
                                                !.extracted_data_json = "lipid",
                                                !.processing_status = "extracted"]

\* Two extracted reports of two patients, every doctor available, the two
\* cardiologists with any earlier assignment dates.
RaceInit ==
    /\ reports = [r \in RaceReports |-> ExtractedReport(IF r = "r1" THEN "p1" ELSE "p2")]
    /\ doctors \in [Doctors -> [specialization : {"Cardiologist", "General Physician"},
                                is_available : {1},
                                last_assignment_date : NoDate..MaxStamp]]
    /\ \A d \in Doctors : doctors[d].specialization = SpecializationOf(d)
    /\ doctors["d3"].last_assignment_date = NoDate
    /\ mappings = {}
    /\ recommendations = {}
    /\ clock = MaxStamp + 1
    /\ ret = Plain("init", NULL, TRUE, NULL)
    /\ runs = [w \in Workers |-> IdleRun]

\* return of auto_assign_doctor in worker w
Returned(w, ok, alloc) ==
    /\ runs' = [runs EXCEPT ![w].pc = "done", ![w].ok = ok]
    /\ ret' = [Plain("auto_assign", runs[w].rid, ok, NULL) EXCEPT
                   !.alloc = alloc, !.sel = runs[w].sel]

\* A statement of auto_assign_doctor in worker w that leaves it at pc.
Stepped(w, pc) == ret' = Plain("allocator_" \o pc, runs'[w].rid, TRUE, NULL)

\* Lines 48-58: load the report, return if it is missing or already assigned.
LoadReport(w, rid) ==
    /\ runs[w].pc = "idle"
    /\ IF rid \notin DOMAIN reports
       THEN /\ runs' = [runs EXCEPT ![w].pc = "done", ![w].rid = rid, ![w].ok = FALSE]
            /\ ret' = [Plain("auto_assign", rid, FALSE, NULL) EXCEPT !.alloc = "not_found"]
       ELSE IF AlreadyAssigned(reports[rid])
       THEN /\ runs' = [runs EXCEPT ![w].pc = "done", ![w].rid = rid, ![w].ok = TRUE,
                                    ![w].report = reports[rid]]
            /\ ret' = [Plain("auto_assign", rid, TRUE, NULL) EXCEPT !.alloc = "already"]
       ELSE /\ runs' = [runs EXCEPT ![w].pc = "select", ![w].rid = rid,
                                    ![w].report = reports[rid]]
            /\ Stepped(w, "select")
    /\ UNCHANGED <<reports, doctors, mappings, recommendations, clock>>

\* Lines 60-125: resolve the specialization, read the available doctors and
\* take the first; with no doctor at all, save pending_manual_assignment.
SelectDoctor(w) ==
    /\ runs[w].pc = "select"
    /\ LET r == runs[w]
           specialists == AvailableSpecialists(doctors, RequiredSpecialization(r.report))
           pool == IF specialists # {} THEN specialists ELSE AllAvailable(doctors)
       IN  IF pool = {}
           THEN /\ reports' = [reports EXCEPT ![r.rid] =
                       [r.report EXCEPT !.processing_status = "pending_manual_assignment"]]
                /\ Returned(w, FALSE, "no_doctor")
           ELSE /\ \E d \in FirstByDate(doctors, pool) :
                       runs' = [runs EXCEPT ![w].pc = "save", ![w].sel = d]
                /\ Stepped(w, "save")
                /\ UNCHANGED reports
    /\ UNCHANGED <<doctors, mappings, recommendations, clock>>

\* Lines 129-139: the doctor id and doctor_assigned on the loaded report
\* object, then report.save().
SaveReport(w) ==
    /\ runs[w].pc = "save"
    /\ reports' = [reports EXCEPT ![runs[w].rid] =
                       [runs[w].report EXCEPT !.assigned_doctor_id = runs[w].sel,
                                              !.processing_status = AssignedStatus]]
    /\ runs' = [runs EXCEPT ![w].pc = "map"]
    /\ Stepped(w, "map")
    /\ UNCHANGED <<doctors, mappings, recommendations, clock>>

\* Lines 141-150: PatientDoctorMapping.create for the selected doctor.
CreateRow(w) ==
    /\ runs[w].pc = "map"
    /\ mappings' = MappingCreate(mappings, runs[w].report.patient_id, runs[w].sel, TRUE).rows
    /\ runs' = [runs EXCEPT ![w].pc = "now"]
    /\ Stepped(w, "now")
    /\ UNCHANGED <<reports, doctors, recommendations, clock>>

\* update_last_assignment_date, line 399: datetime.now() into the object.
ReadNow(w) ==
    /\ runs[w].pc = "now"
    /\ runs' = [runs EXCEPT ![w].pc = "stamp", ![w].now = clock]
    /\ clock' = Later(clock)
    /\ Stepped(w, "stamp")
    /\ UNCHANGED <<reports, doctors, mappings, recommendations>>

\* update_last_assignment_date, lines 400-402: the UPDATE of the doctors
\* row with the time read; auto_assign_doctor then returns True (line 166).
WriteStamp(w) ==
    /\ runs[w].pc = "stamp"
    /\ doctors' = StampDoctor(doctors, runs[w].sel, runs[w].now)
    /\ Returned(w, TRUE, "bound")
    /\ UNCHANGED <<reports, mappings, recommendations, clock>>

RaceNext ==
    \/ \E w \in Workers, rid \in RaceReports \cup {MissingReport} : LoadReport(w, rid)
    \/ \E w \in Workers : SelectDoctor(w)
    \/ \E w \in Workers : SaveReport(w)
    \/ \E w \in Workers : CreateRow(w)
    \/ \E w \in Workers : ReadNow(w)
    \/ \E w \in Workers : WriteStamp(w)

\* Calls of auto_assign_doctor by two server processes, their statements
\* interleaved in any order.
SpecRace == RaceInit /\ [][RaceNext]_vars

\* ------------------------------------------------ the resolver on its own
\* The declared report types: none, seeded ones, one not seeded.
DeclaredTypes == {NULL, "Cardiology Report", "Lipid Profile", "Xyz"}

\* A report row with any declared type and any stored payload.
ResolverInit ==
    /\ \E t \in DeclaredTypes, j \in StoredPayloads :
          reports = [r \in Reports |-> [UploadedReport(t) EXCEPT !.extracted_data_json = j]]
    /\ doctors = [d \in Doctors |-> [specialization |-> SpecializationOf(d),
                                     is_available |-> 1,
                                     last_assignment_date |-> NoDate]]
    /\ mappings = {}
    /\ recommendations = {}
    /\ clock = MaxStamp + 1
    /\ ret = Plain("init", NULL, TRUE, NULL)
    /\ runs = [w \in Workers |-> IdleRun]

\* Which lookups of report_specialist_mapping raised, as a word.
LookupFaults(direct_raises, inferred_raises) ==
    CASE direct_raises /\ inferred_raises -> "both"
      [] direct_raises -> "direct"
      [] inferred_raises -> "inferred"
      [] OTHER -> "none"

\* Step 1 of auto_assign_doctor for report rid: ret holds, in status, the
\* specialization it goes on with, in success whether it did not raise, and
\* in step which lookups raised.
Resolve(rid, direct_raises, inferred_raises) ==
    /\ LET s == ResolveSpecialization(reports[rid], direct_raises, inferred_raises)
       IN  ret' = [Plain("resolve", rid, ~s.raised, NULL) EXCEPT
                       !.status = s.specialization,
                       !.step = LookupFaults(direct_raises, inferred_raises)]
    /\ UNCHANGED <<reports, doctors, mappings, recommendations, clock, runs>>

ResolverNext ==
    \E rid \in Reports, direct_raises \in BOOLEAN, inferred_raises \in BOOLEAN :
        Resolve(rid, direct_raises, inferred_raises)

\* Specialization resolution on every declared type and stored payload.
SpecResolver == ResolverInit /\ [][ResolverNext]_vars

\* ------------------------------------------------------------- properties
\* The processing statuses the pipeline is documented to leave on a report.
ProcessingStatuses ==
    {"uploaded", "extracted", "failed_extraction", "doctor_assigned",
     "pending_manual_assignment", "pending_doctor_review", "pending_ai_analysis",
     "ai_generation_failed", "doctor_assigned_no_ai"}

\* C1: after any completed call of process_report_pipeline on an existing
\* report, successful or not, first or repeated, the persisted
\* processing_status of the report is one of the nine documented statuses.
C1_StatusInDocumentedSet ==
    (ret.op = "pipeline" /\ ret.id \in Reports)
        => reports[ret.id].processing_status \in ProcessingStatuses

\* C1's case: a repeated call on a report that already has its doctor ended
\* in a failure result.
C1_Witness ==
    /\ ret.op = "pipeline" /\ ret.id \in Reports
    /\ ret.pre_doctor # NULL
    /\ ret.success = FALSE

\* C2: a pipeline run or a direct auto_assign_doctor call on a report whose
\* assigned_doctor_id is already set does not fail at the allocation (and
\* succeeds when no collaborator fails), and leaves the report's
\* assigned_doctor_id, every doctor's last_assignment_date and the rows of
\* patient_doctor_mapping as they were.
C2_AssignedReportFrame ==
    [][(ret'.op \in {"pipeline", "auto_assign"} /\ ret'.pre_doctor # NULL)
        => /\ reports'[ret'.id].assigned_doctor_id = reports[ret'.id].assigned_doctor_id
           /\ \A d \in Doctors :
                  doctors'[d].last_assignment_date = doctors[d].last_assignment_date
           /\ mappings' = mappings
           /\ ~ret'.fault => /\ ret'.success = TRUE
                              /\ ret'.alloc \in {"already", "none"}
                              /\ ret'.step = NULL]_vars

\* C2's case: the pipeline ran again on a report with a doctor, reached the
\* allocator and returned success.
C2_Witness ==
    /\ ret.op = "pipeline" /\ ret.pre_doctor # NULL
    /\ ret.alloc = "already"
    /\ ret.success = TRUE

\* The number of active rows of the pair (p, d).
ActiveRows(p, d) ==
    Cardinality({m \in mappings : m.patient_id = p /\ m.doctor_id = d /\ m.is_active = 1})

\* C3: under any sequence of create, save, bulk_assign_patients,
\* deactivate_mapping, reactivate_mapping and auto-allocation there is at
\* most one active mapping row for each (patient, doctor) pair, and a create
\* for a pair that has an active row is refused and changes no row.
C3_OneActiveRowPerPair ==
    /\ [](\A p \in Patients, d \in Doctors : ActiveRows(p, d) <= 1)
    /\ [][(ret'.op = "mapping_create"
           /\ \E m \in mappings : /\ m.patient_id = ret'.id[1]
                                  /\ m.doctor_id = ret'.id[2]
                                  /\ m.is_active = 1)
            => (mappings' = mappings /\ ret'.success = FALSE)]_vars

\* C3's case: a create was refused for a pair with an active row, in a
\* ledger that holds rows of other pairs too, one of them deactivated.
C3_Witness ==
    /\ ret.op = "mapping_create" /\ ret.success = FALSE
    /\ ActiveRows(ret.id[1], ret.id[2]) = 1
    /\ Cardinality(mappings) >= 3
    /\ \E m \in mappings : m.is_active = 0

\* C4: when the doctors that are available and have the required
\* specialization are a non-empty set with pairwise distinct
\* last_assignment_date values (NULL the earliest) and no lookup or write
\* fails, auto_assign_doctor on an unassigned report binds the report to the
\* one with the earliest value; a doctor never assigned is preferred.
C4_EarliestSpecialistSelected ==
    [][(/\ ret'.op \in {"pipeline", "auto_assign"}
        /\ ret'.id \in Reports
        /\ ret'.pre_doctor = NULL
        /\ ret'.alloc # "none"
        /\ ~ret'.fault)
        => LET spec == RequiredSpecialization(reports'[ret'.id])
               S == {d \in Doctors : /\ doctors[d].is_available = 1
                                     /\ doctors[d].specialization = spec}
           IN  (/\ S # {}
                /\ \A d, e \in S : d # e => doctors[d].last_assignment_date
                                             # doctors[e].last_assignment_date)
               => /\ ret'.alloc = "bound"
                  /\ reports'[ret'.id].assigned_doctor_id \in S
                  /\ \A e \in S :
                        doctors[reports'[ret'.id].assigned_doctor_id].last_assignment_date
                            <= doctors[e].last_assignment_date]_vars

\* C4's case: both cardiologists were available with two different earlier
\* assignment dates, and the report went to the one with the earlier date.
C4_Witness ==
    /\ ret.alloc = "bound" /\ ~ret.fault
    /\ ret.sel \in {"d1", "d2"}
    /\ reports["r1"].assigned_doctor_id = ret.sel
    /\ \A d \in {"d1", "d2"} : doctors[d].is_available = 1
    /\ ret.sel_date # NoDate
    /\ \E e \in {"d1", "d2"} \ {ret.sel} : ret.sel_date < doctors[e].last_assignment_date

\* The statuses a doctor's review leaves on a recommendation.
ReviewedStatuses ==
    {"approved_by_doctor", "modified_and_approved_by_doctor", "rejected_by_doctor"}

\* C5: approve, modify-approve or reject on a recommendation that has
\* already been reviewed fails (with whatever error) and leaves every field
\* of the recommendation as it was.
C5_ReviewedRecommendationIsFinal ==
    [][(/\ ret'.op \in {"approve", "modify_approve", "reject"}
        /\ \E x \in recommendations : /\ x.recommendation_id = ret'.id
                                      /\ x.status \in ReviewedStatuses)
        => /\ ret'.success = FALSE
           /\ ret'.error # NULL
           /\ recommendations' = recommendations]_vars

\* The statuses that go with an assigned doctor.
AssignedStatuses ==
    {"doctor_assigned", "pending_doctor_review", "pending_ai_analysis",
     "ai_generation_failed", "doctor_assigned_no_ai"}

\* C6: in every reachable state, also after the pipeline ran again on a
\* report that has its doctor, assigned_doctor_id is set exactly when the
\* processing_status is one of the five statuses that follow an assignment.
C6_DoctorIffAssignedStatus ==
    \A r \in Reports :
        reports[r].assigned_doctor_id # NULL
            <=> reports[r].processing_status \in AssignedStatuses

\* C7: when the pipeline extracts a report that has no doctor, no doctor is
\* available and no persistence call fails, the report ends in
\* pending_manual_assignment with assigned_doctor_id NULL, no mapping row and
\* no recommendation is created or changed, and the result is a failure of
\* the doctor_auto_assignment step.
C7_NoDoctorAvailable ==
    [][(/\ ret'.op = "pipeline"
        /\ ret'.id \in Reports
        /\ ret'.pre_doctor = NULL
        /\ ~ret'.fault
        /\ reports'[ret'.id].extracted_data_json \notin {NULL, "error"}
        /\ \A d \in Doctors : doctors[d].is_available = 0)
        => /\ reports'[ret'.id].processing_status = "pending_manual_assignment"
           /\ reports'[ret'.id].assigned_doctor_id = NULL
           /\ mappings' = mappings
           /\ recommendations' = recommendations
           /\ ret'.success = FALSE
           /\ ret'.step = "doctor_auto_assignment"
           /\ ret'.error # NULL]_vars

\* C7's case: the pipeline extracted the report, found every doctor
\* unavailable and returned the failure of the allocation step.
C7_Witness ==
    /\ ret.op = "pipeline" /\ ret.id \in Reports
    /\ ~ret.fault
    /\ \A d \in Doctors : doctors[d].is_available = 0
    /\ reports[ret.id].extracted_data_json = "lipid"
    /\ reports[ret.id].processing_status = "pending_manual_assignment"
    /\ ret.step = "doctor_auto_assignment"

\* C8: on an existing recommendation, a reject whose doctor_notes are
\* missing or empty, and a modify-approve whose approved_treatment or
\* approved_lifestyle is missing or empty, is answered with the validation
\* error and changes no recommendation.
C8_ValidationBeforeMutation ==
    [][/\ ret'.op = "reject"
          => \A id \in {x.recommendation_id : x \in recommendations},
                did \in ReviewDoctors, notes \in NotesInputs :
                (~Truthy(notes) /\ RejectRecommendation(id, did, notes))
                => /\ ret'.success = FALSE
                   /\ ret'.error = "validation"
                   /\ recommendations' = recommendations
       /\ ret'.op = "modify_approve"
          => \A id \in {x.recommendation_id : x \in recommendations},
                did \in ReviewDoctors, notes \in NotesInputs,
                t \in TreatmentInputs, l \in LifestyleInputs :
                (/\ ~Truthy(t) \/ ~Truthy(l)
                 /\ ModifyAndApproveRecommendation(id, did, notes, t, l))
                => /\ ret'.success = FALSE
                   /\ ret'.error = "validation"
                   /\ recommendations' = recommendations]_vars

\* C8's case: a modify-approve on the stored recommendation was refused with
\* the validation error.
C8_Witness ==
    /\ ret.op = "modify_approve"
    /\ ret.error = "validation"
    /\ \E x \in recommendations : x.recommendation_id = ret.id

\* C9: whenever a pipeline run leaves the report in failed_extraction,
\* pending_manual_assignment or pending_ai_analysis, the result it returns
\* has success false and names the failing step and an error.
C9_FailureStatusMeansFailureResult ==
    (/\ ret.op = "pipeline"
     /\ ret.id \in Reports
     /\ reports[ret.id].processing_status
            \in {"failed_extraction", "pending_manual_assignment", "pending_ai_analysis"})
    => /\ ret.success = FALSE
       /\ ret.step # NULL
       /\ ret.error # NULL

\* C10: process_report_pipeline never lets an exception out: every call
\* returns a result whose success is a boolean and which, when success is
\* false, names a step and an error.
C10_AlwaysStructuredResult ==
    ret.op = "pipeline"
        => /\ ret.kind = "return"
           /\ ret.success \in BOOLEAN
           /\ ret.success = FALSE => (ret.step # NULL /\ ret.error # NULL)

\* C10's case: an exception inside the pipeline came back as the result of
\* the pipeline_execution step.
C10_Witness ==
    /\ ret.op = "pipeline"
    /\ ret.kind = "return"
    /\ ret.success = FALSE
    /\ ret.step = "pipeline_execution"

\* The row of recommendations with the id, in a set of rows that holds it.
RowOf(rows, id) == CHOOSE x \in rows : x.recommendation_id = id

\* C11: after a reject that succeeded, approved_treatment and
\* approved_lifestyle of the recommendation are both NULL, whatever they
\* held before.
C11_RejectClearsApprovedFields ==
    (ret.op = "reject" /\ ret.success = TRUE)
        => /\ RowOf(recommendations, ret.id).approved_treatment = NULL
           /\ RowOf(recommendations, ret.id).approved_lifestyle = NULL

\* The statuses of an approval.
ApprovalStatuses == {"approved_by_doctor", "modified_and_approved_by_doctor"}

\* C12: in every reachable state, a recommendation whose approved_treatment
\* or approved_lifestyle is not NULL has the status approved_by_doctor or
\* modified_and_approved_by_doctor.
C12_ApprovedFieldsOnlyWhenApproved ==
    \A x \in recommendations :
        (x.approved_treatment # NULL \/ x.approved_lifestyle # NULL)
            => x.status \in ApprovalStatuses

\* C13: after an approve by a doctor that succeeded, the recommendation has
\* status approved_by_doctor, its approved fields are copies of the AI
\* generated ones, doctor_id is the acting doctor, reviewed_date and
\* last_updated_at are the time of the action, and the AI generated fields,
\* report_id and patient_id are as before.
C13_ApproveCopiesAiFields ==
    [][\A id \in {x.recommendation_id : x \in recommendations},
          did \in ReviewDoctors, notes \in NotesInputs :
          (ApproveRecommendation(id, did, notes) /\ ret'.success = TRUE)
          => LET old == RowOf(recommendations, id)
                 new == RowOf(recommendations', id)
             IN  /\ new.status = "approved_by_doctor"
                 /\ new.approved_treatment = old.ai_generated_treatment
                 /\ new.approved_lifestyle = old.ai_generated_lifestyle
                 /\ new.doctor_id = did
                 /\ new.reviewed_date = clock
                 /\ new.last_updated_at = clock
                 /\ new.ai_generated_treatment = old.ai_generated_treatment
                 /\ new.ai_generated_lifestyle = old.ai_generated_lifestyle
                 /\ new.ai_generated_priority = old.ai_generated_priority
                 /\ new.report_id = old.report_id
                 /\ new.patient_id = old.patient_id]_vars

\* C13's case: a recommendation created for doctor d1 was approved by
\* doctor d2 and carries the AI texts as approved texts.
C13_Witness ==
    /\ ret.op = "approve" /\ ret.success = TRUE
    /\ LET x == RowOf(recommendations, ret.id)
       IN  /\ x.status = "approved_by_doctor"
           /\ x.doctor_id = "d2"
           /\ x.approved_treatment = "ai_treatment"
           /\ x.approved_lifestyle = "ai_lifestyle"
           /\ x.reviewed_date = x.last_updated_at
           /\ x.reviewed_date # NoDate

C15_PendingReviewHasRecommendation ==
    (/\ ret.op = "pipeline"
     /\ ret.id \in Reports
     /\ reports[ret.id].processing_status = "pending_doctor_review")
    => \E x \in recommendations :
           /\ x.report_id = ret.id
           /\ x.status = "pending_doctor_review"
           /\ x.doctor_id = reports[ret.id].assigned_doctor_id

\* The statuses of a failed AI stage.
AiFailureStatuses == {"ai_generation_failed", "doctor_assigned_no_ai"}

\* C16: when the pipeline has assigned a doctor and then loading or calling
\* the AI generator fails, the call returns a structured result, the
\* persisted status is ai_generation_failed or doctor_assigned_no_ai, and
\* assigned_doctor_id is the doctor just assigned.
C16_AiFailureDowngradesStatus ==
    (/\ ret.op = "pipeline"
     /\ ret.id \in Reports
     /\ ret.alloc = "bound"
     /\ \/ ret.error = "Pipeline execution failed: ImportError"
        \/ ret.status \in AiFailureStatuses)
    => /\ ret.kind = "return"
       /\ reports[ret.id].processing_status \in AiFailureStatuses
       /\ reports[ret.id].assigned_doctor_id = ret.sel

\* C17: when no available doctor has the required specialization, some
\* doctor is available and no lookup or write fails, auto_assign_doctor on an
\* unassigned report binds it to an available doctor with the earliest
\* last_assignment_date (NULL first) whatever the specialization, and the
\* report is doctor_assigned (or further, inside a pipeline run); a report
\* is in pending_manual_assignment only when no doctor is available at all.
C17_FallbackToAnyAvailableDoctor ==
    /\ [](\A r \in Reports :
              reports[r].processing_status = "pending_manual_assignment"
                  => \A d \in Doctors : doctors[d].is_available = 0)
    /\ [][(/\ ret'.op \in {"pipeline", "auto_assign"}
           /\ ret'.id \in Reports
           /\ ret'.pre_doctor = NULL
           /\ ret'.alloc # "none"
           /\ ~ret'.fault
           /\ \E d \in Doctors : doctors[d].is_available = 1
           /\ \A d \in Doctors :
                  doctors[d].is_available = 1
                      => doctors[d].specialization
                             # RequiredSpecialization(reports'[ret'.id]))
          => LET chosen == reports'[ret'.id].assigned_doctor_id
             IN  /\ ret'.alloc = "bound"
                 /\ chosen \in Doctors
                 /\ doctors[chosen].is_available = 1
                 /\ \A e \in Doctors :
                        doctors[e].is_available = 1
                            => doctors[chosen].last_assignment_date
                                   <= doctors[e].last_assignment_date
                 /\ ret'.op = "auto_assign"
                        => reports'[ret'.id].processing_status = "doctor_assigned"
                 /\ reports'[ret'.id].processing_status \in AssignedStatuses]_vars

\* C17's case: a cardiology report, no cardiologist available, and the
\* report went to the available general physician.
C17_Witness ==
    /\ ret.alloc = "bound" /\ ~ret.fault
    /\ reports["r1"].report_type = "Cardiology Report"
    /\ doctors["d1"].is_available = 0 /\ doctors["d2"].is_available = 0
    /\ doctors["d3"].is_available = 1
    /\ reports["r1"].assigned_doctor_id = "d3"

C19_AllocationAppliesAllThree ==
    [][(/\ ret'.op = "auto_assign"
        /\ ret'.success = TRUE
        /\ ret'.alloc = "bound")
       => /\ reports'[ret'.id].assigned_doctor_id = ret'.sel
          /\ \E m \in mappings' : /\ m.patient_id = reports'[ret'.id].patient_id
                                  /\ m.doctor_id = ret'.sel
                                  /\ m.is_active = 1
          /\ doctors'[ret'.sel].last_assignment_date = clock]_vars

\* The statuses in which a report with a doctor stops short of the review.
StoppedStatuses ==
    {"doctor_assigned", "pending_ai_analysis", "ai_generation_failed",
     "doctor_assigned_no_ai"}

\* C20: when the pipeline runs again on a report that stopped with its
\* doctor assigned, the extraction succeeds, the AI generator does not come
\* back empty and no call fails, the report is in pending_doctor_review
\* afterwards with a recommendation in pending_doctor_review.
C20_StoppedReportResumes ==
    [][(/\ ret'.op = "pipeline"
        /\ ret'.id \in Reports
        /\ reports[ret'.id].assigned_doctor_id # NULL
        /\ reports[ret'.id].processing_status \in StoppedStatuses
        /\ ~ret'.fault
        /\ reports'[ret'.id].extracted_data_json \notin {NULL, "error"}
        /\ ret'.status # "pending_ai_analysis")
       => /\ reports'[ret'.id].processing_status = "pending_doctor_review"
          /\ \E x \in recommendations' : /\ x.report_id = ret'.id
                                         /\ x.status = "pending_doctor_review"]_vars

\* C21: a pipeline run never returns success = true carrying a processing
\* status that was not persisted: when a save of the report reports failure
\* the run returns success = false, so after a successful return the stored
\* processing_status of the report is the status the result carries.
C21_ReturnedStatusIsPersisted ==
    (ret.op = "pipeline" /\ ret.id \in Reports /\ ret.success = TRUE)
       => reports[ret.id].processing_status = ret.status

\* The workers whose call wrote its selected doctor onto the report.
Bound(w) == runs[w].pc \in {"map", "now", "stamp"} \/ (runs[w].pc = "done" /\ runs[w].sel # NULL)

\* C22: two interleaved runs of auto_assign_doctor on two different
\* unassigned reports that need the same specialization, with at least two
\* available doctors of that specialization, do not both bind to the same
\* doctor.
C22_SelectThenStampAtomic ==
    \A v \in Workers, w \in Workers :
        (/\ v # w
         /\ Bound(v) /\ Bound(w)
         /\ runs[v].rid # runs[w].rid
         /\ RequiredSpecialization(runs[v].report) = RequiredSpecialization(runs[w].report)
         /\ Cardinality(AvailableSpecialists(doctors,
                            RequiredSpecialization(runs[v].report))) >= 2)
           => runs[v].sel # runs[w].sel

\* C23: under interleaved runs against the same report exactly one doctor is
\* ever bound to it: the doctor a run wrote on the report (and gave a
\* mapping row and a stamp for it) is still the report's assigned doctor.
C23_OneDoctorEverBound ==
    \A w \in Workers :
        Bound(w) => reports[runs[w].rid].assigned_doctor_id = runs[w].sel

\* C25: the stored last_assignment_date of a doctor never decreases, over
\* any sequence and any interleaving of allocations.
C25_StampNeverDecreases ==
    [][\A d \in Doctors :
          doctors'[d].last_assignment_date >= doctors[d].last_assignment_date]_vars

\* The statuses of a recommendation and how far along its life each one is.
RecommendationStatuses ==
    {"AI_generated", "pending_doctor_review", "approved_by_doctor",
     "modified_and_approved_by_doctor", "rejected_by_doctor", "deleted"}

StatusRank(s) ==
    CASE s = "AI_generated" -> 0
      [] s = "pending_doctor_review" -> 1
      [] s \in ReviewedStatuses -> 2
      [] OTHER -> 3

\* C24: under pipeline runs, review actions and soft deletes the status of a
\* recommendation stays in its six values and only moves forward along
\* AI_generated -> pending_doctor_review -> reviewed -> deleted: never from
\* a reviewed status to another reviewed status or back to
\* pending_doctor_review.
C24_StatusOnlyMovesForward ==
    [][\A x \in recommendations, y \in recommendations' :
          x.recommendation_id = y.recommendation_id
             => /\ y.status \in RecommendationStatuses
                /\ \/ y.status = x.status
                   \/ StatusRank(y.status) > StatusRank(x.status)]_vars

C27_NoAiDataFrame ==
    [][(ret'.op = "pipeline" /\ ~ret'.fault /\ ret'.alloc = "bound")
          => /\ (recommendations' = recommendations)
                    <=> (ret'.status = "pending_ai_analysis")
             /\ ret'.status = "pending_ai_analysis"
                    => /\ ret'.success = TRUE
                       /\ reports'[ret'.id].processing_status = "pending_ai_analysis"
                       /\ reports'[ret'.id].assigned_doctor_id = ret'.sel
                       /\ mappings' = MappingCreate(mappings, reports[ret'.id].patient_id,
                                                    ret'.sel, TRUE).rows]_vars

\* A run without AI data on a report that already had a recommendation.
C27_Witness ==
    /\ ret.op = "pipeline" /\ ~ret.fault /\ ret.alloc = "bound"
    /\ ret.status = "pending_ai_analysis"
    /\ reports[ret.id].processing_status = "pending_ai_analysis"
    /\ \E x \in recommendations : x.report_id = ret.id /\ x.status = "AI_generated"

\* C28: creating an active mapping for a (patient, doctor) pair that already
\* has a mapping row, active or deactivated, leaves the pair with exactly
\* one active mapping.
C28_CreateLeavesOneActive ==
    [][\A p \in Patients, d \in Doctors :
          (/\ ret'.op = "mapping_create"
           /\ CreateMapping(p, d, TRUE)
           /\ \E m \in mappings : m.patient_id = p /\ m.doctor_id = d)
             => Cardinality({m \in mappings' : /\ m.patient_id = p
                                               /\ m.doctor_id = d
                                               /\ m.is_active = 1}) = 1]_vars

\* The rows of the ledger that do not belong to the pair (p, d).
OtherPairs(rows, p, d) == {m \in rows : ~(m.patient_id = p /\ m.doctor_id = d)}

\* C29: mapping exclusivity is per pair only: PatientDoctorMapping.create
\* and auto-allocation for (P, D2) leave every row of another pair as it
\* was, so a patient can have two doctors active at the same time.
C29_ExclusivityPerPairOnly ==
    [][/\ ret'.op = "mapping_create"
            => OtherPairs(mappings', ret'.id[1], ret'.id[2])
                  = OtherPairs(mappings, ret'.id[1], ret'.id[2])
       /\ (ret'.op = "auto_assign" /\ ret'.id \in Reports)
            => OtherPairs(mappings', reports[ret'.id].patient_id, ret'.sel)
                  = OtherPairs(mappings, reports[ret'.id].patient_id, ret'.sel)]_vars

\* A create gave the patient an active mapping while the patient's active
\* mapping to another doctor stayed.
C29_Witness ==
    /\ ret.op = "mapping_create" /\ ret.success = TRUE
    /\ \E m \in mappings, n \in mappings :
          /\ m.patient_id = ret.id[1] /\ m.doctor_id = ret.id[2] /\ m.is_active = 1
          /\ n.patient_id = ret.id[1] /\ n.doctor_id # ret.id[2] /\ n.is_active = 1

====
